---- MODULE Spec2Model ----
(***************************************************************************)
(* The two angle-gauge fields of scratch-blocks: Blockly.FieldUntiangle    *)
(* (core/field_untiangle.js) and Blockly.FieldPercent (the sibling file).  *)
(* One field instance is modelled; `preset` says which of the two classes  *)
(* it is.  Angles are integers in micro-degrees (UNIT per degree), so the  *)
(* percent preset's ROUND = 3.565 degrees is exact.  Arithmetic is exact   *)
(* decimal arithmetic; IEEE-754 rounding noise is not modelled.            *)
(* Text is a sequence of one-character strings, so String(), parseFloat()  *)
(* and Number() are modelled as the conversions they are.                  *)
(***************************************************************************)
EXTENDS Integers, Sequences, FiniteSets, TLC

\* Micro-degrees per degree (the unit of every angle of the model).
UNIT == 1000 * 1000

\* ---------------------------------------------------------------- bounds
\* Largest magnitude, in degrees, of a value the model stores.
MaxDegrees == 1000
\* Subscription handles bindEvent_ may hand out in one behaviour.
MaxBinds == 5
\* The normalisation inputs are k half-degrees, -MaxNormK <= k <= MaxNormK.
MaxNormK == 1500
\* unbindEvent_ calls counted per handle (the count saturates here).
MaxUnbinds == 2

MaxValue == MaxDegrees * UNIT

\* ------------------------------------------------------ class constants
\* ROUND is in micro-degrees (15 and 3.565 degrees), the others in degrees.
FieldUntiangle_ROUND == 15000000
FieldPercent_ROUND == 3565000
FieldUntiangle_OFFSET == 90
FieldPercent_OFFSET == 90
FieldUntiangle_WRAP == 180
FieldPercent_WRAP == 360
FieldUntiangle_CLOCKWISE == FALSE
FieldPercent_CLOCKWISE == TRUE

Presets == {"untiangle", "percent"}
ROUND(p) == IF p = "untiangle" THEN FieldUntiangle_ROUND ELSE FieldPercent_ROUND
OFFSET(p) == (IF p = "untiangle" THEN FieldUntiangle_OFFSET ELSE FieldPercent_OFFSET) * UNIT
WRAP(p) == (IF p = "untiangle" THEN FieldUntiangle_WRAP ELSE FieldPercent_WRAP) * UNIT
CLOCKWISE(p) == IF p = "untiangle" THEN FieldUntiangle_CLOCKWISE ELSE FieldPercent_CLOCKWISE

\* ------------------------------------------------- JavaScript values
\* The number NaN: one integer outside the range of every stored value.
NaN == 0 - MaxValue - MaxValue
IsNaN(n) == n = NaN
\* The value null, as the validators return it.
Null == <<"null">>
\* The value undefined, as a host validator may return it.
Undefined == <<"undefined">>

\* a % m of JavaScript: the remainder has the sign of the dividend.
JSRem(a, m) == IF a >= 0 THEN a % m ELSE 0 - ((0 - a) % m)

Abs(n) == IF n < 0 THEN 0 - n ELSE n

Digits == <<"0", "1", "2", "3", "4", "5", "6", "7", "8", "9">>
IsDigit(c) == \E i \in 1..10 : Digits[i] = c
DigitVal(c) == (CHOOSE i \in 1..10 : Digits[i] = c) - 1

RECURSIVE Pow10(_)
Pow10(k) == IF k = 0 THEN 1 ELSE 10 * Pow10(k - 1)

\* How many leading characters of s are digits.
RECURSIVE LeadDigits(_)
LeadDigits(s) ==
  IF s = <<>> \/ ~IsDigit(Head(s)) THEN 0 ELSE 1 + LeadDigits(Tail(s))

\* The integer a digit string denotes.
RECURSIVE IntOf(_)
IntOf(s) ==
  IF s = <<>> THEN 0 ELSE IntOf(SubSeq(s, 1, Len(s) - 1)) * 10 + DigitVal(s[Len(s)])

\* The micro-units a fraction digit string denotes (digits past the sixth
\* are below the model's resolution).
RECURSIVE FracOf(_, _)
FracOf(s, k) ==
  IF s = <<>> \/ k = 0 THEN 0
  ELSE DigitVal(Head(s)) * Pow10(k - 1) + FracOf(Tail(s), k - 1)

\* The numeric prefix of s: [ok, len, val]: whether s starts with a decimal
\* literal ([+-]digits[.digits] with at least one digit), how many
\* characters it takes, and its value in micro-units.  sg is the length of
\* the sign (0 or 1), ni the number of integer digits, dot the length of the
\* decimal point (0 or 1), nf the number of fraction digits.
PrefixResult(s, sg, ni, dot, nf, mag) ==
  [ok |-> ni + nf > 0,
   len |-> sg + ni + dot * (1 + nf),
   val |-> IF sg = 1 /\ Head(s) = "-" THEN 0 - mag ELSE mag]

PrefixFraction(s, sg, ni, dot, nf) ==
  PrefixResult(s, sg, ni, dot, nf,
               IntOf(SubSeq(s, sg + 1, sg + ni)) * UNIT
                 + FracOf(SubSeq(s, sg + ni + 2, sg + ni + 1 + nf), 6))

PrefixDot(s, sg, ni, dot) ==
  PrefixFraction(s, sg, ni, dot,
                 IF dot = 1 THEN LeadDigits(SubSeq(s, sg + ni + 2, Len(s))) ELSE 0)

PrefixDigits(s, sg, ni) ==
  PrefixDot(s, sg, ni, IF Len(s) > sg + ni /\ s[sg + ni + 1] = "." THEN 1 ELSE 0)

PrefixSign(s, sg) == PrefixDigits(s, sg, LeadDigits(SubSeq(s, sg + 1, Len(s))))

NumericPrefix(s) ==
  PrefixSign(s, IF s # <<>> /\ Head(s) \in {"-", "+"} THEN 1 ELSE 0)

\* parseFloat(s): the value of the longest numeric prefix, else NaN.
PrefixValue(r) == IF r.ok THEN r.val ELSE NaN
ParseFloat(s) == PrefixValue(NumericPrefix(s))

\* Number(s): the empty string is 0; otherwise the whole string must be a
\* numeric literal.
WholeValue(s, r) == IF r.ok /\ r.len = Len(s) THEN r.val ELSE NaN
Number(s) == IF s = <<>> THEN 0 ELSE WholeValue(s, NumericPrefix(s))

RECURSIVE IntStr(_)
IntStr(n) ==
  IF n < 10 THEN <<Digits[n + 1]>>
  ELSE Append(IntStr(n \div 10), Digits[(n % 10) + 1])

\* The k fraction digits of f (f < 10^k), trailing zeros dropped.
RECURSIVE FracStr(_, _)
FracStr(f, k) ==
  IF f = 0 THEN <<>>
  ELSE <<Digits[(f \div Pow10(k - 1)) + 1]>> \o FracStr(f % Pow10(k - 1), k - 1)

\* String(n) for a number n; a is its magnitude.
DecStr(a) ==
  IntStr(a \div UNIT) \o (IF a % UNIT = 0 THEN <<>> ELSE <<".">> \o FracStr(a % UNIT, 6))
ToStr(n) ==
  IF IsNaN(n) THEN <<"N", "a", "N">>
  ELSE (IF n < 0 THEN <<"-">> ELSE <<>>) \o DecStr(Abs(n))

\* Math.round(a / r) * r, r > 0 (Math.round rounds halves up).
RoundTo(a, r) == ((2 * a + r) \div (2 * r)) * r

\* ------------------------------------------------------- classValidator
\* text || 0
OrZero(text) == IF text = <<>> THEN <<"0">> ELSE text
\* if (n < 0) n += 360
AddTurn(n) == IF n < 0 THEN n + 360 * UNIT ELSE n
\* if (n > WRAP) n -= 360
SubTurn(n) == IF n > WRAP("untiangle") THEN n - 360 * UNIT ELSE n

\* The steps of classValidator after parseFloat, n being the number parsed.
FieldUntiangle_fold(n) ==
  IF IsNaN(n) THEN Null ELSE ToStr(SubTurn(AddTurn(JSRem(n, 360 * UNIT))))
FieldPercent_fold(n) ==
  IF IsNaN(n) THEN Null ELSE ToStr(n)

\* A variant that forgets to fold values above WRAP.
FieldUntiangle_fold_NoWrap(n) ==
  IF IsNaN(n) THEN Null ELSE ToStr(AddTurn(JSRem(n, 360 * UNIT)))
FieldUntiangle_classValidator_NoWrap(text) ==
  IF text = Null THEN Null ELSE FieldUntiangle_fold_NoWrap(ParseFloat(OrZero(text)))

\* A variant that forgets the n % 360 step.
FieldUntiangle_fold_NoMod(n) ==
  IF IsNaN(n) THEN Null ELSE ToStr(SubTurn(AddTurn(n)))
FieldUntiangle_classValidator_NoMod(text) ==
  IF text = Null THEN Null ELSE FieldUntiangle_fold_NoMod(ParseFloat(OrZero(text)))

FieldUntiangle_classValidator(text) ==
  IF text = Null THEN Null ELSE FieldUntiangle_fold(ParseFloat(OrZero(text)))

\* A variant without the isNaN test.
FieldPercent_classValidator_NoNaNCheck(text) ==
  IF text = Null THEN Null ELSE ToStr(ParseFloat(OrZero(text)))

FieldPercent_classValidator(text) ==
  IF text = Null THEN Null ELSE FieldPercent_fold(ParseFloat(OrZero(text)))

classValidator(p, text) ==
  IF p = "untiangle" THEN FieldUntiangle_classValidator(text)
  ELSE FieldPercent_classValidator(text)

\* The host's validator hook hv: absent, or one that rejects (null) every
\* value above VetoAbove degrees and returns undefined otherwise.
VetoAbove == 100
userValidator(hv, text) ==
  IF hv = "veto" /\ ParseFloat(text) > VetoAbove * UNIT THEN Null ELSE Undefined

\* callValidator of the base field class: the class validator first, then
\* the host's hook; null from either rejects, undefined from the hook keeps
\* the text.
UserResult(classResult, userResult) ==
  IF userResult = Null THEN Null
  ELSE IF userResult = Undefined THEN classResult ELSE userResult
ClassResult(hv, classResult) ==
  IF classResult = Null THEN Null
  ELSE UserResult(classResult, userValidator(hv, classResult))
callValidator(p, hv, text) == ClassResult(hv, classValidator(p, text))

\* A variant with the constructor's test inverted.
CtorText_Inverted(optValue) ==
  IF optValue # <<>> /\ ~IsNaN(Number(optValue)) THEN <<"0">> ELSE optValue

\* The constructor's defaulting of opt_value.
CtorText(optValue) ==
  IF optValue # <<>> /\ ~IsNaN(Number(optValue)) THEN optValue ELSE <<"0">>

\* ------------------------------------------------------------- geometry
\* Math.atan(num / den) in micro-degrees for 0 <= num, den, not both 0, at
\* the ratios the pointer offsets of the model produce.
AtanTable(num, den) ==
  CASE den = 0 -> 90 * UNIT
    [] num = 0 -> 0
    [] num = den -> 45 * UNIT
    [] num = 29 /\ den = 50 -> 30113733
    [] num = 50 /\ den = 29 -> 59886267
    [] num = 49 /\ den = 3 -> 86496563

Sign(n) == IF n < 0 THEN 0 - 1 ELSE IF n > 0 THEN 1 ELSE 0

\* A variant that takes every division by dx = 0 for NaN.
AtanDeg_ZeroDxNaN(dx, dy) ==
  IF dx = 0 THEN NaN
  ELSE Sign(0 - dy) * Sign(dx) * AtanTable(Abs(dy), Abs(dx))

\* goog.math.toDegrees(Math.atan(-dy / dx)): -dy / dx is NaN only for 0 / 0,
\* and +-Infinity (atan: +-90 degrees) when only dx is 0.
AtanDeg(dx, dy) ==
  IF dx = 0 /\ dy = 0 THEN NaN
  ELSE Sign(0 - dy) * (IF dx = 0 THEN 1 ELSE Sign(dx)) * AtanTable(Abs(dy), Abs(dx))

\* 0: East, 90: North, 180: West, 270: South.
Quadrant(a, dx, dy) ==
  IF dx < 0 THEN a + 180 * UNIT ELSE IF dy > 0 THEN a + 360 * UNIT ELSE a
\* The direction and the offset of the class.
Directed(p, q) ==
  IF CLOCKWISE(p) THEN OFFSET(p) + 360 * UNIT - q ELSE q - OFFSET(p)

\* A variant that takes the counterclockwise branch whatever CLOCKWISE is.
PointerAngle_IgnoreClockwise(p, dx, dy) ==
  IF dx = 0 /\ dy = 0 THEN NaN ELSE Quadrant(AtanDeg(dx, dy), dx, dy) - OFFSET(p)

\* The pointer's angle before rounding.
PointerAngle(p, dx, dy) ==
  IF IsNaN(AtanDeg(dx, dy)) THEN NaN ELSE Directed(p, Quadrant(AtanDeg(dx, dy), dx, dy))

\* The angle onMouseMove hands on: rounded to a multiple of ROUND.
Rounded(p, a) ==
  IF IsNaN(a) THEN NaN ELSE IF ROUND(p) # 0 THEN RoundTo(a, ROUND(p)) ELSE a
RoundedAngle(p, dx, dy) == Rounded(p, PointerAngle(p, dx, dy))

\* The attributes updateGraph_ writes for the number n = Number(getText()):
\* the arc's flags, the direction of the end point (x2, y2) of the moving
\* line and of the handle (the point is centre + RADIUS * (cos, -sin) of it;
\* NaN stands for the centre itself), and the arrow's rotation.
NoGraph == [arc |-> <<>>, point |-> NaN, rotation |-> NaN]
LargeFlag(p, angleDegrees) ==
  IF Abs(angleDegrees - OFFSET(p)) > 180 * UNIT THEN 1 ELSE 0
SweepFlag(p, angleDegrees) ==
  IF angleDegrees < OFFSET(p) THEN 1 - (IF CLOCKWISE(p) THEN 1 ELSE 0)
  ELSE IF CLOCKWISE(p) THEN 1 ELSE 0
Drawn(p, angleDegrees) ==
  [arc |-> <<LargeFlag(p, angleDegrees), SweepFlag(p, angleDegrees)>>,
   point |-> IF CLOCKWISE(p) THEN 2 * OFFSET(p) - angleDegrees ELSE angleDegrees,
   rotation |-> IF CLOCKWISE(p) THEN angleDegrees + 2 * OFFSET(p)
                ELSE 0 - angleDegrees]
Geometry(p, n, old) ==
  IF IsNaN(n) THEN [arc |-> <<>>, point |-> NaN, rotation |-> old.rotation]
  ELSE Drawn(p, JSRem(n, 360 * UNIT) + OFFSET(p))

\* ---------------------------------------------------------------- state
VARIABLES
  preset,             \* which class the field is
  hostValidator,      \* the opt_validator given to the constructor
  optValue,           \* the opt_value given to the constructor
  text_,              \* the field's text (getText / getValue)
  textElement_,       \* whether the field is rendered
  sizeWidth,          \* size_.width: 0 when the cached width is cleared
  htmlInput,          \* Blockly.FieldTextInput.htmlInput_.value
  isEditorOpen,       \* the widget (text editor) of the field is shown
  dropDown,           \* Blockly.DropDownDiv: whose dials it holds, whether shown
  gauge_,             \* this.gauge_: 0 is null, 1 the dial's path element
  otherGauge_,        \* gauge_ of another field instance on the same page
  graph,              \* the attributes updateGraph_ wrote to the dial
  mouseDownWrapper_,  \* the three stored subscription handles
  mouseMoveWrapper_,
  mouseUpWrapper_,
  bound,              \* the subscriptions that are active
  nextId,             \* the next handle bindEvent_ hands out
  unbinds,            \* per handle, the unbindEvent_ calls it received
  isDragging,         \* a drag session is active
  lastAccepted,       \* the last text callValidator returned
  lastEvent,          \* the last event handled, and what its handler did
  nIn, nOut, nOut2    \* normalisation: input, result, result of the result

fieldVars == <<preset, hostValidator, optValue, text_, textElement_, sizeWidth,
               htmlInput, isEditorOpen, dropDown, gauge_, otherGauge_, graph,
               mouseDownWrapper_, mouseMoveWrapper_, mouseUpWrapper_, bound,
               nextId, unbinds, isDragging, lastAccepted, lastEvent>>
normVars == <<nIn, nOut, nOut2>>
vars == <<fieldVars, normVars>>

\* The inputs of the model.
Str(n) == ToStr(n * UNIT)
HostValidators == {"none", "veto"}
InitTexts == {Str(200), <<"a", "b", "c">>}
UserTexts == {<<"a", "b", "c">>, <<>>, <<"1", "2", "a">>, Str(50), Str(0 - 190)}
\* Pointer offsets (dx, dy) from the dial's centre, in pixels.
Offsets == {<<0, 0>>, <<0, 0 - 50>>, <<50, 0>>, <<0 - 50, 0>>, <<0, 50>>,
            <<50, 29>>, <<0 - 29, 0 - 50>>, <<0 - 3, 0 - 49>>}

NoWrapper == [id |-> 0, name |-> "none"]
NoEvent == [op |-> "new", dx |-> 0, dy |-> 0, text |-> <<>>, ignored |-> FALSE,
            threw |-> FALSE, verdict |-> Undefined, redrawn |-> 0]

\* The mutable state the handlers work on, as one record.
Cur ==
  [text_ |-> text_, sizeWidth |-> sizeWidth, htmlInput |-> htmlInput,
   isEditorOpen |-> isEditorOpen, dropDown |-> dropDown, gauge_ |-> gauge_,
   otherGauge_ |-> otherGauge_,
   graph |-> graph, mouseDownWrapper_ |-> mouseDownWrapper_,
   mouseMoveWrapper_ |-> mouseMoveWrapper_, mouseUpWrapper_ |-> mouseUpWrapper_,
   bound |-> bound, nextId |-> nextId, unbinds |-> unbinds,
   lastAccepted |-> lastAccepted, ignored |-> FALSE, threw |-> FALSE,
   verdict |-> Undefined, redrawn |-> 0]

\* ----------------------------------------------- the event utilities
\* Blockly.bindEvent_: a new active subscription; its handle is
\* [id |-> s.nextId, name |-> name].
bindEvent_(s, name) ==
  [s EXCEPT !.bound = @ \cup {[id |-> s.nextId, name |-> name]},
            !.nextId = @ + 1]

\* Blockly.unbindEvent_: the subscription is removed (removing one that is
\* no longer active removes nothing).
unbindEvent_(s, h) ==
  [s EXCEPT !.bound = @ \ {h},
            !.unbinds[h.id] = IF @ < MaxUnbinds THEN @ + 1 ELSE @]

\* The ids of the active subscriptions to `name`, in registration order.
RECURSIVE SortedIds(_)
SortedIds(S) ==
  IF S = {} THEN <<>>
  ELSE LET m == CHOOSE x \in S : \A y \in S : x <= y
       IN <<m>> \o SortedIds(S \ {m})
Listeners(bnd, name) == SortedIds({h.id : h \in {b \in bnd : b.name = name}})

\* ------------------------------------------------ the field's methods
updateGraph_(p, s) ==
  IF s.gauge_ = 0 THEN s
  ELSE [s EXCEPT !.graph = Geometry(p, Number(s.text_), s.graph),
                 !.redrawn = @ + 1]

\* A variant of setText that leaves the dial as it was drawn.
setText_NoRedraw(p, rendered, s, text) ==
  IF ~rendered THEN [s EXCEPT !.text_ = text]
  ELSE [s EXCEPT !.text_ = text, !.sizeWidth = 0]

setText(p, rendered, s, text) ==
  IF ~rendered THEN [s EXCEPT !.text_ = text]
  ELSE [updateGraph_(p, [s EXCEPT !.text_ = text]) EXCEPT !.sizeWidth = 0]

\* setValue of the base class: null changes nothing, anything else is
\* stored through setText.
setValue(p, rendered, s, v) ==
  IF v = Null THEN s ELSE setText(p, rendered, s, v)

\* callValidator, recording what it returned.
Verdict(s, v) ==
  [s EXCEPT !.verdict = v, !.lastAccepted = IF v = Null THEN @ ELSE v]
Validated(p, hv, s, text) == Verdict(s, callValidator(p, hv, text))

onMouseDown(s) ==
  [bindEvent_(bindEvent_(s, "mousemove"), "mouseup")
     EXCEPT !.mouseMoveWrapper_ = [id |-> s.nextId, name |-> "mousemove"],
            !.mouseUpWrapper_ = [id |-> s.nextId + 1, name |-> "mouseup"]]

onMouseUp(s) ==
  unbindEvent_(unbindEvent_(s, s.mouseMoveWrapper_), s.mouseUpWrapper_)

\* How a run of onMouseMove ended: on the TypeError of a null gauge_, on the
\* isNaN return, or at its end.
Threw(s) == [s EXCEPT !.threw = TRUE, !.ignored = FALSE]
Ignored(s) == [s EXCEPT !.ignored = TRUE, !.threw = FALSE]
Moved(s) == [s EXCEPT !.ignored = FALSE, !.threw = FALSE]

\* The end of the untiangle onMouseMove, s being the state after
\* callValidator: htmlInput_.value = angle (null shows as the empty text),
\* setValue(angle).
FieldUntiangle_commitMove(rendered, s) ==
  setValue("untiangle", rendered,
           [s EXCEPT !.htmlInput = IF s.verdict = Null THEN <<>> ELSE s.verdict],
           s.verdict)

FieldUntiangle_onMouseMove(hv, rendered, s, dx, dy) ==
  IF s.gauge_ = 0 THEN Threw(s)
  ELSE IF IsNaN(AtanDeg(dx, dy)) THEN Ignored(s)
  ELSE Moved(FieldUntiangle_commitMove(
               rendered,
               Validated("untiangle", hv, s, ToStr(RoundedAngle("untiangle", dx, dy)))))

\* The end of the percent onMouseMove: htmlInput_.value =
\* Math.floor((angle % 360) / ROUND), setValue(angle).
\* A variant that shows angle / ROUND without the % 360.
FieldPercent_commitMove_NoMod(rendered, s, angle) ==
  setValue("percent", rendered,
           [s EXCEPT !.htmlInput = Str(angle \div FieldPercent_ROUND)],
           ToStr(angle))

FieldPercent_commitMove(rendered, s, angle) ==
  setValue("percent", rendered,
           [s EXCEPT !.htmlInput = Str(JSRem(angle, 360 * UNIT) \div FieldPercent_ROUND)],
           ToStr(angle))

FieldPercent_onMouseMove(hv, rendered, s, dx, dy) ==
  IF s.gauge_ = 0 THEN Threw(s)
  ELSE IF IsNaN(AtanDeg(dx, dy)) THEN Ignored(s)
  ELSE Moved(FieldPercent_commitMove(rendered, s, RoundedAngle("percent", dx, dy)))

onMouseMove(p, hv, rendered, s, dx, dy) ==
  IF p = "untiangle" THEN FieldUntiangle_onMouseMove(hv, rendered, s, dx, dy)
  ELSE FieldPercent_onMouseMove(hv, rendered, s, dx, dy)

\* Blockly.DropDownDiv, the one drop-down of the page: content is the set
\* of the field instances whose dial elements are in its content div.
hideWithoutAnimation(dd) == [dd EXCEPT !.shown = FALSE]
\* A variant of clearContent that leaves the content in place.
clearContent_Keep(dd) == dd
clearContent(dd) == [dd EXCEPT !.content = {}]
\* createSvgElement(..., div) of the dial's elements, showPositionedByBlock.
BuildDial(dd, owner) == [dd EXCEPT !.content = @ \cup {owner}, !.shown = TRUE]
\* The drop-down after showEditor_ of the field instance `owner`.
DropDownFor(dd, owner) == BuildDial(clearContent(hideWithoutAnimation(dd)), owner)

\* showEditor_ up to the subscription of the handle: the text editor opens
\* on the field's text, the drop-down is hidden, cleared and filled with a
\* new dial, and the handle's mousedown is subscribed.
OpenDial(s) ==
  bindEvent_([s EXCEPT !.isEditorOpen = TRUE, !.htmlInput = s.text_,
                       !.dropDown = DropDownFor(s.dropDown, "this"),
                       !.gauge_ = 1, !.graph = NoGraph,
                       !.mouseDownWrapper_ = [id |-> s.nextId, name |-> "mousedown"]],
             "mousedown")

\* Number(this.getText()) * ROUND, n being Number(this.getText()).
Rescaled(n) ==
  IF IsNaN(n) THEN NaN ELSE (n \div 1000) * (FieldPercent_ROUND \div 1000)
\* A variant without the multiplication.
ResetPercent_Unscaled(text) == Number(text)
ResetPercent(text) == Rescaled(Number(text))

\* this.callValidator(reset_percent); this.setValue(reset_percent);
\* (callValidator reads a NaN argument as 0: text || 0).
FieldPercent_reset(hv, rendered, s, reset_percent) ==
  setValue("percent", rendered,
           Validated("percent", hv, s,
                     IF IsNaN(reset_percent) THEN <<"0">> ELSE ToStr(reset_percent)),
           ToStr(reset_percent))

FieldUntiangle_showEditor_(s) == updateGraph_("untiangle", OpenDial(s))

FieldPercent_showEditor_(hv, rendered, s) ==
  updateGraph_("percent",
               FieldPercent_reset(hv, rendered, OpenDial(s), ResetPercent(s.text_)))

showEditor_(p, hv, rendered, s) ==
  IF p = "untiangle" THEN FieldUntiangle_showEditor_(s)
  ELSE FieldPercent_showEditor_(hv, rendered, s)

\* The closure dispose_ returns: the text editor goes, gauge_ is dropped,
\* and each stored handle that is set is unbound.
UnbindDown(s) ==
  IF s.mouseDownWrapper_ # NoWrapper THEN unbindEvent_(s, s.mouseDownWrapper_) ELSE s
UnbindUp(s) ==
  IF s.mouseUpWrapper_ # NoWrapper THEN unbindEvent_(s, s.mouseUpWrapper_) ELSE s
UnbindMove(s) ==
  IF s.mouseMoveWrapper_ # NoWrapper THEN unbindEvent_(s, s.mouseMoveWrapper_) ELSE s
dispose_(s) ==
  UnbindMove(UnbindUp(UnbindDown(
    [s EXCEPT !.isEditorOpen = FALSE, !.htmlInput = Null, !.gauge_ = 0])))

\* ------------------------------------------------------- event dispatch
\* A document-level mousemove: every active mousemove subscription of the
\* field runs onMouseMove, in registration order.
RECURSIVE DispatchMove(_, _, _, _, _, _, _)
DispatchMove(p, hv, rendered, s, ids, dx, dy) ==
  IF ids = <<>> THEN s
  ELSE DispatchMove(p, hv, rendered, onMouseMove(p, hv, rendered, s, dx, dy),
                    Tail(ids), dx, dy)

\* A document-level mouseup: the subscriptions active when the event is
\* dispatched run onMouseUp in registration order; one that an earlier
\* listener removed meanwhile does not run.
RECURSIVE DispatchUp(_, _)
DispatchUp(s, ids) ==
  IF ids = <<>> THEN s
  ELSE DispatchUp(IF [id |-> Head(ids), name |-> "mouseup"] \in s.bound
                  THEN onMouseUp(s) ELSE s,
                  Tail(ids))

\* A mousedown on the handle: each active mousedown subscription runs
\* onMouseDown.
RECURSIVE DispatchDown(_, _)
DispatchDown(s, ids) ==
  IF ids = <<>> THEN s ELSE DispatchDown(onMouseDown(s), Tail(ids))

\* The text the host supplies (typed into the editor, or loaded): the
\* validator sanitises it; null leaves the field as it is.
CommitVerdict(p, rendered, s) == setValue(p, rendered, s, s.verdict)
SetFromUserText(p, hv, rendered, s, text) ==
  CommitVerdict(p, rendered,
                Validated(p, hv,
                          [s EXCEPT !.htmlInput = IF s.isEditorOpen THEN text ELSE @],
                          text))

\* The base constructor stores the initial text as the validator of the
\* class accepts it.
BaseConstructor(p, text) == classValidator(p, text)

\* ---------------------------------------------------------------- steps
Commit(s, op, dx, dy, text) ==
  /\ text_' = s.text_
  /\ sizeWidth' = s.sizeWidth
  /\ htmlInput' = s.htmlInput
  /\ isEditorOpen' = s.isEditorOpen
  /\ dropDown' = s.dropDown
  /\ gauge_' = s.gauge_
  /\ otherGauge_' = s.otherGauge_
  /\ graph' = s.graph
  /\ mouseDownWrapper_' = s.mouseDownWrapper_
  /\ mouseMoveWrapper_' = s.mouseMoveWrapper_
  /\ mouseUpWrapper_' = s.mouseUpWrapper_
  /\ bound' = s.bound
  /\ nextId' = s.nextId
  /\ unbinds' = s.unbinds
  /\ lastAccepted' = s.lastAccepted
  /\ lastEvent' = [op |-> op, dx |-> dx, dy |-> dy, text |-> text,
                   ignored |-> s.ignored, threw |-> s.threw,
                   verdict |-> s.verdict, redrawn |-> s.redrawn]
  /\ UNCHANGED <<preset, hostValidator, optValue, normVars>>

Init ==
  /\ preset \in Presets
  /\ hostValidator \in HostValidators
  /\ optValue \in InitTexts
  /\ text_ = BaseConstructor(preset, CtorText(optValue))
  /\ textElement_ = FALSE
  /\ sizeWidth = 0
  /\ htmlInput = Null
  /\ isEditorOpen = FALSE
  /\ dropDown = [content |-> {}, shown |-> FALSE]
  /\ gauge_ = 0
  /\ otherGauge_ = 0
  /\ graph = NoGraph
  /\ mouseDownWrapper_ = NoWrapper
  /\ mouseMoveWrapper_ = NoWrapper
  /\ mouseUpWrapper_ = NoWrapper
  /\ bound = {}
  /\ nextId = 1
  /\ unbinds = [i \in 1..MaxBinds |-> 0]
  /\ isDragging = FALSE
  /\ lastAccepted = text_
  /\ lastEvent = NoEvent
  /\ nIn = <<>>
  /\ nOut = Undefined
  /\ nOut2 = Undefined

\* The host renders the field (init): the text element exists from now on.
FieldInit ==
  /\ ~textElement_
  /\ textElement_' = TRUE
  /\ isDragging' = isDragging
  /\ Commit([Cur EXCEPT !.sizeWidth = 1], "init", 0, 0, <<>>)

\* The user's text reaches the field.
TypeText ==
  \E t \in UserTexts :
    /\ UNCHANGED <<textElement_, isDragging>>
    /\ Commit(SetFromUserText(preset, hostValidator, textElement_, Cur, t),
              "type", 0, 0, t)

\* The percent preset's rescaled text must be a value the model can hold.
Representable(n) ==
  IsNaN(n) \/ (n % 1000 = 0 /\ Abs(n \div 1000) <= MaxValue \div (FieldPercent_ROUND \div 1000))
CanReset == preset = "percent" => Representable(Number(text_))

\* The widget (the text editor and what hangs on it) has one owner: when a
\* field's editor opens, the host first destroys the widget of the field
\* that had it, calling that field's dispose closure.
OtherClosed(s) == [s EXCEPT !.otherGauge_ = 0]
ThisClosed(s) == IF s.isEditorOpen THEN dispose_(s) ELSE s
\* showEditor_ of the other field instance, as far as this field sees it:
\* the text input is the other's, the drop-down holds the other's dial and
\* the other's gauge_ refers to it.
OtherOpened(s) ==
  [s EXCEPT !.htmlInput = <<"0">>,
            !.dropDown = DropDownFor(s.dropDown, "other"),
            !.otherGauge_ = 1]
\* The dispose closure of the other field instance.
OtherDisposed(s) == [s EXCEPT !.htmlInput = Null, !.otherGauge_ = 0]

ShowEditor ==
  /\ textElement_
  /\ ~isEditorOpen
  /\ nextId <= MaxBinds
  /\ CanReset
  /\ UNCHANGED <<textElement_, isDragging>>
  /\ Commit(showEditor_(preset, hostValidator, textElement_, OtherClosed(Cur)),
            "open", 0, 0, <<>>)

\* The user opens the editor of the other field instance.
OtherShowEditor ==
  /\ otherGauge_ = 0
  /\ isDragging' = (IF isEditorOpen THEN FALSE ELSE isDragging)
  /\ UNCHANGED textElement_
  /\ Commit(OtherOpened(ThisClosed(Cur)), "otherOpen", 0, 0, <<>>)

\* The editor of the other field instance is closed.
OtherDispose ==
  /\ otherGauge_ = 1
  /\ UNCHANGED <<textElement_, isDragging>>
  /\ Commit(OtherDisposed(Cur), "otherDispose", 0, 0, <<>>)

PointerDown ==
  LET ids == Listeners(bound, "mousedown")
  IN /\ ids # <<>>
     /\ nextId + 2 * Len(ids) - 1 <= MaxBinds
     /\ isDragging' = TRUE
     /\ UNCHANGED textElement_
     /\ Commit(DispatchDown(Cur, ids), "down", 0, 0, <<>>)

PointerMove ==
  LET ids == Listeners(bound, "mousemove")
  IN /\ ids # <<>>
     /\ \E o \in Offsets :
          /\ UNCHANGED <<textElement_, isDragging>>
          /\ Commit(DispatchMove(preset, hostValidator, textElement_, Cur, ids, o[1], o[2]),
                    "move", o[1], o[2], <<>>)

PointerUp ==
  LET ids == Listeners(bound, "mouseup")
  IN /\ ids # <<>>
     /\ isDragging' = FALSE
     /\ UNCHANGED textElement_
     /\ Commit(DispatchUp(Cur, ids), "up", 0, 0, <<>>)

Dispose ==
  /\ isEditorOpen
  /\ isDragging' = FALSE
  /\ UNCHANGED textElement_
  /\ Commit(dispose_(Cur), "dispose", 0, 0, <<>>)

Next ==
  \/ FieldInit
  \/ TypeText
  \/ ShowEditor
  \/ PointerDown
  \/ PointerMove
  \/ PointerUp
  \/ Dispose
  \/ OtherShowEditor
  \/ OtherDispose

Spec == Init /\ [][Next]_vars

\* -------------------------------------- the normalisation, on its own
NormInputs == {ToStr(k * (UNIT \div 2)) : k \in (0 - MaxNormK)..MaxNormK}

InitNorm ==
  /\ preset = "untiangle"
  /\ hostValidator = "none"
  /\ optValue = <<>>
  /\ text_ = BaseConstructor(preset, CtorText(optValue))
  /\ textElement_ = FALSE
  /\ sizeWidth = 0
  /\ htmlInput = Null
  /\ isEditorOpen = FALSE
  /\ dropDown = [content |-> {}, shown |-> FALSE]
  /\ gauge_ = 0
  /\ otherGauge_ = 0
  /\ graph = NoGraph
  /\ mouseDownWrapper_ = NoWrapper
  /\ mouseMoveWrapper_ = NoWrapper
  /\ mouseUpWrapper_ = NoWrapper
  /\ bound = {}
  /\ nextId = 1
  /\ unbinds = [i \in 1..MaxBinds |-> 0]
  /\ isDragging = FALSE
  /\ lastAccepted = text_
  /\ lastEvent = NoEvent
  /\ nIn \in NormInputs
  /\ nOut = Undefined
  /\ nOut2 = Undefined

Normalize ==
  /\ nOut = Undefined
  /\ nOut' = FieldUntiangle_classValidator(nIn)
  /\ UNCHANGED <<nIn, nOut2, fieldVars>>

Renormalize ==
  /\ nOut # Undefined
  /\ nOut2 = Undefined
  /\ nOut2' = FieldUntiangle_classValidator(nOut)
  /\ UNCHANGED <<nIn, nOut, fieldVars>>

NextNorm ==
  \/ Normalize
  \/ Renormalize

SpecNorm == InitNorm /\ [][NextNorm]_vars

\* ------------------------------------------------------------ the claims
Subscribed(name) == {h \in bound : h.name = name}
DialOpen == isEditorOpen /\ gauge_ = 1
IsMove(e, dx, dy) == e.op = "move" /\ e.dx = dx /\ e.dy = dy
\* A text without any digit: no number can be read from it.
NonNumeric(t) == t # <<>> /\ \A i \in 1..Len(t) : ~IsDigit(t[i])

\* C1: while a drag is active the field holds exactly one active mousemove
\* and exactly one active mouseup subscription, and once the drag has ended
\* (pointer-up) none of either is active.
C1_OnePairWhileDragging ==
  /\ isDragging =>
       Cardinality(Subscribed("mousemove")) = 1 /\ Cardinality(Subscribed("mouseup")) = 1
  /\ lastEvent.op = "up" =>
       Subscribed("mousemove") = {} /\ Subscribed("mouseup") = {}

\* C2: after the dispose closure has run, no mousedown, mousemove or mouseup
\* subscription of the field is active (so no handler of the field can run).
C2_DisposeReleasesAll ==
  lastEvent.op = "dispose" => bound = {}

\* C3: the field's value is always the last value the validator accepted.
C3_ValueIsLastAccepted ==
  text_ = lastAccepted

\* C4: a user text that is not numeric is rejected by the validator (null),
\* the field's value stays what it was and the dial is not redrawn.
C4_NonNumericRejected ==
  [][(lastEvent'.op = "type" /\ NonNumeric(lastEvent'.text)) =>
       /\ classValidator(preset, lastEvent'.text) = Null
       /\ lastEvent'.verdict = Null
       /\ text_' = text_
       /\ graph' = graph
       /\ lastEvent'.redrawn = 0]_vars
C4_Witness ==
  /\ lastEvent.op = "type"
  /\ lastEvent.text = <<"a", "b", "c">>
  /\ DialOpen
  /\ textElement_

\* C5: when the validator rejects the candidate a pointer-move or the percent
\* preset's editor-open reset produced, the value and the text of the input
\* are left as they were.
C5_RejectionChangesNothing ==
  [][(lastEvent'.op \in {"move", "open"} /\ lastEvent'.verdict = Null) =>
       /\ text_' = text_
       /\ lastEvent'.op = "move" => htmlInput' = htmlInput]_vars

\* C6: with the dial open, the angle of a pointer-move is NaN exactly when
\* dx = 0 and dy = 0; that event is ignored (value, input text and dial
\* geometry unchanged); every other offset is computed and handed on to be
\* committed: the value becomes the angle as the handler passes it to
\* setValue, unless the validator returned null for it.
C6_Handed(p, hv, angle) ==
  IF p = "untiangle" THEN Number(callValidator(p, hv, ToStr(angle))) ELSE angle
C6_Move(centre, angle) ==
  /\ IsNaN(angle) <=> centre
  /\ lastEvent'.ignored <=> centre
  /\ ~lastEvent'.threw
  /\ centre => text_' = text_ /\ htmlInput' = htmlInput /\ graph' = graph
  /\ ~centre /\ lastEvent'.verdict # Null =>
       /\ Number(text_') = C6_Handed(preset, hostValidator, angle)
       /\ lastEvent'.redrawn > 0
C6_NaNOnlyAtCentre ==
  [][(lastEvent'.op = "move" /\ gauge_ = 1) =>
       C6_Move(lastEvent'.dx = 0 /\ lastEvent'.dy = 0,
               RoundedAngle(preset, lastEvent'.dx, lastEvent'.dy))]_vars
C6_Witness ==
  /\ lastEvent.op = "move"
  /\ lastEvent.dx = 0 /\ lastEvent.dy = 0
  /\ lastEvent.ignored
  /\ gauge_ = 1

\* C7 as stated: in the percent preset (clockwise, offset 90) a pointer-move
\* with dx = 0, dy = -50 is ignored and leaves the value unchanged.
C7_StraightUpIgnored ==
  [][(IsMove(lastEvent', 0, 0 - 50) /\ preset = "percent" /\ gauge_ = 1) =>
       lastEvent'.ignored /\ text_' = text_]_vars

\* C7 as amended: in the percent preset a pointer-move with dx = 0, dy = -50
\* while the dial is open is not ignored: atan gives 90 degrees, the
\* clockwise angle is 360, rounded to 101 * 3.565 = 360.065, which setValue
\* commits, and the input shows 0.
C7_StraightUpCommitted ==
  [][(IsMove(lastEvent', 0, 0 - 50) /\ preset = "percent" /\ gauge_ = 1) =>
       /\ ~lastEvent'.ignored
       /\ text_' = <<"3", "6", "0", ".", "0", "6", "5">>
       /\ htmlInput' = <<"0">>]_vars
C7_Witness ==
  /\ IsMove(lastEvent, 0, 0 - 50)
  /\ preset = "percent"
  /\ gauge_ = 1
  /\ text_ = <<"3", "6", "0", ".", "0", "6", "5">>

\* C8: the untiangle classValidator returns, for every numeric input v, a
\* value in (-180, 180] that is congruent to v modulo 360.
C8_UntiangleRange ==
  nOut # Undefined =>
    /\ nOut # Null
    /\ Number(nOut) > (FieldUntiangle_WRAP - 360) * UNIT
    /\ Number(nOut) <= FieldUntiangle_WRAP * UNIT
    /\ (Number(nOut) - Number(nIn)) % (360 * UNIT) = 0
C8_Witness ==
  /\ nIn = Str(200)
  /\ nOut = Str(0 - 160)

\* C9: the untiangle normalisation is idempotent: normalising a normalised
\* value returns it unchanged.
C9_UntiangleIdempotent ==
  nOut2 # Undefined => nOut2 = nOut
C9_Witness ==
  /\ nOut2 # Undefined
  /\ Number(nIn) > 360 * UNIT
  /\ nOut # nIn

C11_GeometryCurrent ==
  DialOpen =>
    /\ ~IsNaN(Number(text_))
    /\ graph = Drawn(preset, JSRem(Number(text_), 360 * UNIT) + OFFSET(preset))
\* A typed -190 with the untiangle dial open: the value is 170 and the dial
\* is drawn for it.
C11_Witness ==
  /\ DialOpen
  /\ lastEvent.op = "type"
  /\ lastEvent.text = Str(0 - 190)
  /\ text_ = Str(170)
  /\ preset = "untiangle"
  /\ graph.point = 260 * UNIT

\* C12: with two field instances on the one drop-down, showEditor_ hides
\* and clears what the drop-down holds before it builds its own dial: at
\* every moment the drop-down holds the dial elements of at most one field
\* instance, at most one instance has a gauge_ reference, and an instance
\* that has one is the instance whose dial the drop-down holds.
C12_OneDialOwner ==
  /\ Cardinality(dropDown.content) <= 1
  /\ ~(gauge_ = 1 /\ otherGauge_ = 1)
  /\ gauge_ = 1 => dropDown.content = {"this"}
  /\ otherGauge_ = 1 => dropDown.content = {"other"}
\* The other instance's editor opened after this field's had been open: the
\* drop-down holds the other's dial only, and this field's gauge_ is null.
C12_Witness ==
  /\ lastEvent.op = "otherOpen"
  /\ dropDown = [content |-> {"other"}, shown |-> TRUE]
  /\ otherGauge_ = 1
  /\ gauge_ = 0
  /\ mouseDownWrapper_ # NoWrapper

\* C13: each time the percent preset's editor opens, the field's value t
\* becomes t * 3.565, and the dial's first drawing is the drawing of that
\* value; opening the untiangle preset's editor leaves the value as it was.
C13_Scaled(t) == (t \div 1000) * 3565
C13_PercentRescaledOnOpen ==
  [][lastEvent'.op = "open" =>
       IF preset = "percent"
       THEN /\ Number(text_') = C13_Scaled(Number(text_))
            /\ text_' = ToStr(C13_Scaled(Number(text_)))
            /\ lastEvent'.redrawn > 0
            /\ graph' = Drawn("percent",
                              JSRem(C13_Scaled(Number(text_)), 360 * UNIT) + OFFSET("percent"))
       ELSE text_' = text_]_vars
\* The editor opened a second time: 50, then 178.25, then 635.46125.
C13_Witness ==
  /\ lastEvent.op = "open"
  /\ preset = "percent"
  /\ text_ = <<"6", "3", "5", ".", "4", "6", "1", "2", "5">>

\* C14: every subscription handle bindEvent_ returned is passed to
\* unbindEvent_ at most once, whatever the sequence of editor-open,
\* pointer-down, pointer-up and dispose events.
C14_UnbindAtMostOnce ==
  \A i \in 1..MaxBinds : unbinds[i] <= 1

\* C15: in the percent preset, a pointer-move off the centre writes
\* floor((angle mod 360) / 3.565) to the text input, angle being the rounded
\* pointer angle; that number is an integer from 0 to 100, and the value
\* setValue stores is the rounded angle itself, a multiple of 3.565, and not
\* the number shown.
C15_Move(angle) ==
  /\ ~lastEvent'.ignored
  /\ angle % 3565000 = 0
  /\ htmlInput' = IntStr((angle % (360 * UNIT)) \div 3565000)
  /\ Number(htmlInput') \in {k * UNIT : k \in 0..100}
  /\ text_' = ToStr(angle)
  /\ text_' # htmlInput'
C15_DisplayInRange ==
  [][(lastEvent'.op = "move" /\ preset = "percent" /\ gauge_ = 1
        /\ ~(lastEvent'.dx = 0 /\ lastEvent'.dy = 0)) =>
       C15_Move(RoundedAngle("percent", lastEvent'.dx, lastEvent'.dy))]_vars
\* The largest number shown: the pointer at 356.4966 degrees, rounded to
\* 100 * 3.565 = 356.5.
C15_Witness ==
  /\ IsMove(lastEvent, 0 - 3, 0 - 49)
  /\ preset = "percent"
  /\ gauge_ = 1
  /\ htmlInput = <<"1", "0", "0">>
  /\ text_ = <<"3", "5", "6", ".", "5">>
====
